---- MODULE Spec2Model ----
(***************************************************************************)
(* A model of examples/training/object_detection/pascal_voc/retina_net.py. *)
(*                                                                         *)
(* The script is straight-line Python: it parses two flags, selects a      *)
(* distribution strategy, builds two lazy tf.data pipelines, builds and    *)
(* compiles a RetinaNet and calls model.fit with five callbacks.           *)
(*                                                                         *)
(* Two specifications share this module.                                   *)
(*   Spec      the script itself, statement by statement; a tf.data        *)
(*             pipeline is what it is in the program, a lazy description   *)
(*             (the splits it reads and the transformations applied).      *)
(*   PipeSpec  what such a pipeline yields when it is iterated: the        *)
(*             transformations of the script applied, in the script's      *)
(*             order, to a bounded dataset.                                *)
(***************************************************************************)
EXTENDS Integers, Sequences, FiniteSets, TLC

VARIABLES
    pc,                 \* the statement the script is at
    trace,              \* the stages that have run, in order
    FLAGS,              \* absl flag values
    strategy,           \* the tf.distribute strategy bound to `strategy`
    tpu_error,          \* whether the try block raised ValueError
    num_replicas,       \* strategy.num_replicas_in_sync
    GLOBAL_BATCH_SIZE,
    train_ds, eval_ds,  \* the lazy pipelines
    pipe_i,             \* index of the next pipeline statement
    model,              \* the RetinaNet and its optimizer
    callbacks,          \* the callbacks list handed to fit
    fit,                \* the state of model.fit and of its callbacks
    \* PipeSpec: one pipeline being iterated
    p_ops, p_pos, p_replicas, p_n, data, prev_data

vars == <<pc, trace, FLAGS, strategy, tpu_error, num_replicas, GLOBAL_BATCH_SIZE,
          train_ds, eval_ds, pipe_i, model, callbacks, fit,
          p_ops, p_pos, p_replicas, p_n, data, prev_data>>

scriptVars == <<pc, trace, FLAGS, strategy, tpu_error, num_replicas,
                GLOBAL_BATCH_SIZE, train_ds, eval_ds, pipe_i, model, callbacks, fit>>

pipeVars == <<p_ops, p_pos, p_replicas, p_n, data, prev_data>>

(***************************************************************************)
(* Bounds of the model.                                                    *)
(***************************************************************************)
\* replicas a strategy may report
MaxReplicas == 2
\* validation losses range over 0..MaxLoss, in units of half of
\* ReduceLROnPlateau's min_delta
MaxLoss == 3
\* examples in a dataset fed to a pipeline
MaxExamples == 9
\* offsets into the table of per-image box counts
MaxSeed == 2

(***************************************************************************)
(* Program constants.                                                      *)
(***************************************************************************)
EPOCHS == 100
CHECKPOINT_PATH == "checkpoint/"
BATCH_SIZE == 4
IMG_SIZE == 640
\* model.fit(..., epochs=35, ...)
fit_epochs == 35
\* keras.callbacks.ReduceLROnPlateau(patience=5)
rlr_patience == 5
\* keras.callbacks.EarlyStopping(patience=10)
es_patience == 10
\* boxes.to_tensor(default_value=-1.0, shape=[GLOBAL_BATCH_SIZE, 32, 5])
PAD_BOXES == 32
PAD_ATTRS == 5
PAD_VALUE == -1
\* keras_cv.models.RetinaNet(classes=20, ...)
NUM_CLASSES == 20

\* flags.DEFINE_string defaults
DefaultFlags ==
    [weights_name |-> "weights_{epoch:02d}.h5", tensorboard_path |-> "logs"]

\* what the command line may carry for each flag ("" stands for: not given)
WeightsNameArgs == {"", "out/w_{epoch:02d}.h5"}
TensorboardPathArgs == {"", "out/tb"}

(***************************************************************************)
(* Flags (lines 39-50).  FLAGS(sys.argv) overrides a default with the      *)
(* value given on the command line.                                        *)
(***************************************************************************)
ParseArgv(wn, tp) ==
    [weights_name     |-> IF wn = "" THEN DefaultFlags.weights_name ELSE wn,
     tensorboard_path |-> IF tp = "" THEN DefaultFlags.tensorboard_path ELSE tp]

(***************************************************************************)
(* Strategy selection (lines 54-59).  `connect` and `ctor` are the         *)
(* outcomes of TPUClusterResolver.connect() and of TPUStrategy(tpu): "ok", *)
(* "ValueError", or "OtherError" for an exception of any other type, which *)
(* `except ValueError` does not catch.  TPUStrategy(tpu) runs only when    *)
(* connect() returned.                                                     *)
(***************************************************************************)
TryOutcomes == {"ok", "ValueError", "OtherError"}

Raised(connect, ctor) == IF connect # "ok" THEN connect ELSE ctor

StrategySelectionNoFallback(connect, ctor) ==
    LET e == Raised(connect, ctor) IN
    IF e = "ok" THEN [strategy |-> "TPUStrategy", raised |-> e, aborted |-> FALSE]
    ELSE [strategy |-> "unbound", raised |-> e, aborted |-> TRUE]

StrategySelection(connect, ctor) ==
    LET e == Raised(connect, ctor) IN
    IF e = "ok" THEN [strategy |-> "TPUStrategy", raised |-> e, aborted |-> FALSE]
    ELSE IF e = "ValueError"
         THEN [strategy |-> "MirroredStrategy", raised |-> e, aborted |-> FALSE]
         ELSE [strategy |-> "unbound", raised |-> e, aborted |-> TRUE]

(***************************************************************************)
(* The order of the script's stages: each statement group runs after the   *)
(* one above it in the file.                                               *)
(***************************************************************************)
Stages == <<"flags", "strategy", "pipelines", "model", "compile", "fit">>

StageAfterFitBeforeCompile(s) ==
    CASE s = "flags"     -> "strategy"
      [] s = "strategy"  -> "batch_size"
      [] s = "batch_size" -> "pipelines"
      [] s = "pipelines" -> "model"
      [] s = "model"     -> "freeze"
      [] s = "freeze"    -> "callbacks"
      [] s = "compile"   -> "done"
      [] s = "callbacks" -> "fit"
      [] s = "fit"       -> "compile"
      [] OTHER           -> "done"

StageAfter(s) ==
    CASE s = "flags"     -> "strategy"
      [] s = "strategy"  -> "batch_size"
      [] s = "batch_size" -> "pipelines"
      [] s = "pipelines" -> "model"
      [] s = "model"     -> "freeze"
      [] s = "freeze"    -> "compile"
      [] s = "compile"   -> "callbacks"
      [] s = "callbacks" -> "fit"
      [] s = "fit"       -> "done"
      [] OTHER           -> "done"

(***************************************************************************)
(* The pipeline statements, in file order (lines 69-171).  Each names the  *)
(* dataset it rebinds and the transformation it appends.                   *)
(***************************************************************************)
PipelineProgram == <<
    [target |-> "train", op |-> "load",            arg |-> "voc/2007:train+validation"],
    [target |-> "train", op |-> "concatenate",     arg |-> "voc/2012:train+validation"],
    [target |-> "eval",  op |-> "load",            arg |-> "voc/2007:test"],
    [target |-> "train", op |-> "unpackage_xywh",  arg |-> "xywh"],
    [target |-> "train", op |-> "ragged_batch",    arg |-> "drop_remainder"],
    [target |-> "train", op |-> "shuffle",         arg |-> ""],
    [target |-> "train", op |-> "prefetch",        arg |-> ""],
    [target |-> "eval",  op |-> "unpackage_xywh",  arg |-> "xywh"],
    [target |-> "eval",  op |-> "ragged_batch",    arg |-> "drop_remainder"],
    [target |-> "eval",  op |-> "prefetch",        arg |-> ""],
    [target |-> "train", op |-> "augmenter",       arg |-> "xywh"],
    [target |-> "eval",  op |-> "eval_resizing",   arg |-> "xywh"],
    [target |-> "train", op |-> "unpackage_tuple", arg |-> ""],
    [target |-> "eval",  op |-> "unpackage_tuple", arg |-> ""],
    [target |-> "train", op |-> "pad_fn",          arg |-> ""],
    [target |-> "eval",  op |-> "pad_fn",          arg |-> ""] >>

EmptyDs == [splits |-> <<>>, ops |-> <<>>]

\* one tf.data call: a new dataset description built from `ds`
ApplyStatement(ds, st) ==
    IF st.op = "load" THEN [splits |-> <<st.arg>>, ops |-> <<>>]
    ELSE IF st.op = "concatenate"
         THEN [splits |-> Append(ds.splits, st.arg), ops |-> ds.ops]
         ELSE [splits |-> ds.splits, ops |-> Append(ds.ops, st.op)]

RECURSIVE BuildUpTo(_, _)
\* the dataset bound to `target` after the first n pipeline statements
BuildUpTo(target, n) ==
    IF n = 0 THEN EmptyDs
    ELSE LET ds == BuildUpTo(target, n - 1)
             st == PipelineProgram[n]
         IN  IF st.target = target THEN ApplyStatement(ds, st) ELSE ds

(***************************************************************************)
(* Model construction and compilation (lines 173-208).                     *)
(***************************************************************************)
NoModel ==
    [built |-> FALSE, backbone_trainable |-> TRUE, in_scope_of |-> "unbound",
     optimizer |-> FALSE, compiled |-> FALSE]

\* keras_cv.models.RetinaNet(...) over a new ResNet50: layers are trainable
\* when they are created
BuildRetinaNet(strat) ==
    [built |-> TRUE, backbone_trainable |-> TRUE, in_scope_of |-> strat,
     optimizer |-> FALSE, compiled |-> FALSE]

FreezeSkipped(m) == [m EXCEPT !.optimizer = TRUE]

\* model.backbone.trainable = False; optimizer = tf.optimizers.SGD(...)
Freeze(m) == [m EXCEPT !.backbone_trainable = FALSE, !.optimizer = TRUE]

CompileModel(m) == [m EXCEPT !.compiled = TRUE]

(***************************************************************************)
(* The callbacks list (lines 210-216).                                     *)
(***************************************************************************)
Callbacks(flags, evalds) == <<
    [kind |-> "TensorBoard", log_dir |-> "logs"],
    [kind |-> "ReduceLROnPlateau", patience |-> rlr_patience],
    [kind |-> "EarlyStopping", patience |-> es_patience],
    [kind |-> "ModelCheckpoint", filepath |-> CHECKPOINT_PATH,
     save_weights_only |-> TRUE],
    [kind |-> "PyCOCOCallback", validation_data |-> evalds,
     bounding_box_format |-> "xywh"] >>

(***************************************************************************)
(* model.fit and the callbacks' on_epoch_end handlers (Keras).             *)
(*                                                                         *)
(* A monitored best value is <<>> for +inf (the value on_train_begin sets) *)
(* and <<v>> otherwise.  Losses are integers in units of half of           *)
(* ReduceLROnPlateau's default min_delta (1e-4), so that an improvement    *)
(* smaller than min_delta exists.  EarlyStopping's min_delta is 0.         *)
(***************************************************************************)
rlr_min_delta == 2
rlr_cooldown == 0

Losses == 0..MaxLoss

\* np.less(current, best - min_delta), best = +inf included
Less(current, best, min_delta) == best = <<>> \/ current < best[1] - min_delta

\* the templates whose "{epoch:02d}" field str.format fills in
EpochTemplates == {"weights_{epoch:02d}.h5", "out/w_{epoch:02d}.h5"}

\* filepath.format(epoch=epoch + 1, **logs)
FormatPath(filepath, epoch) ==
    IF filepath \in EpochTemplates THEN <<filepath, epoch + 1>> ELSE <<filepath>>

\* on_train_begin of every callback, and fit's own initial state
FitStart(m) ==
    [epoch |-> 0, stop_training |-> FALSE, lr_reductions |-> 0,
     es_wait |-> 0, es_best |-> <<>>,
     rlr_wait |-> 0, rlr_best |-> <<>>, rlr_cooldown_counter |-> 0,
     backbone_trainable |-> m.backbone_trainable,
     tb_log_dir |-> "", saved_to |-> <<>>, saved_weights_only |-> FALSE,
     ckpt_saves |-> 0, coco_evals |-> 0, coco_data |-> EmptyDs, coco_format |-> "",
     events |-> <<>>,
     \* bookkeeping of the run itself, not of any callback
     plateau |-> 0, min_seen |-> <<>>, plateau_reductions |-> 0]

NotStarted == FitStart(NoModel)

TensorBoard_on_epoch_end(cb, st, epoch, val_loss) ==
    [st EXCEPT !.tb_log_dir = cb.log_dir, !.events = Append(@, cb.kind)]

ReduceLROnPlateau_on_epoch_end(cb, st, epoch, val_loss) ==
    LET in_cooldown == st.rlr_cooldown_counter > 0
        s1 == IF in_cooldown
              THEN [st EXCEPT !.rlr_cooldown_counter = @ - 1, !.rlr_wait = 0]
              ELSE st
        s2 == IF Less(val_loss, s1.rlr_best, rlr_min_delta)
              THEN [s1 EXCEPT !.rlr_best = <<val_loss>>, !.rlr_wait = 0]
              ELSE IF ~(s1.rlr_cooldown_counter > 0)
                   THEN IF s1.rlr_wait + 1 >= cb.patience
                        \* old_lr > min_lr = 0: the learning rate BASE_LR * 0.1^n
                        \* stays positive for every n a run of fit_epochs reaches
                        THEN [s1 EXCEPT !.lr_reductions = @ + 1,
                                        !.rlr_cooldown_counter = rlr_cooldown,
                                        !.rlr_wait = 0]
                        ELSE [s1 EXCEPT !.rlr_wait = @ + 1]
                   ELSE s1
    IN  [s2 EXCEPT !.events = Append(@, cb.kind)]

EarlyStoppingNeverStops(cb, st, epoch, val_loss) ==
    LET improved == Less(val_loss, st.es_best, 0)
    IN  [st EXCEPT !.es_best = IF improved THEN <<val_loss>> ELSE @,
                   !.es_wait = IF improved THEN 0 ELSE @ + 1,
                   !.events = Append(@, cb.kind)]

EarlyStopping_on_epoch_end(cb, st, epoch, val_loss) ==
    LET improved == Less(val_loss, st.es_best, 0)
        wait == IF improved THEN 0 ELSE st.es_wait + 1
    IN  [st EXCEPT !.es_best = IF improved THEN <<val_loss>> ELSE @,
                   !.es_wait = wait,
                   !.stop_training = @ \/ (wait >= cb.patience /\ epoch > 0),
                   !.events = Append(@, cb.kind)]

ModelCheckpointBestOnly(cb, st, epoch, val_loss) ==
    IF st.es_wait = 0
    THEN [st EXCEPT !.saved_to = FormatPath(cb.filepath, epoch),
                    !.saved_weights_only = cb.save_weights_only,
                    !.ckpt_saves = @ + 1,
                    !.events = Append(@, cb.kind)]
    ELSE [st EXCEPT !.events = Append(@, cb.kind)]

\* save_freq = "epoch", save_best_only = False: a save at every epoch end
ModelCheckpoint_on_epoch_end(cb, st, epoch, val_loss) ==
    [st EXCEPT !.saved_to = FormatPath(cb.filepath, epoch),
               !.saved_weights_only = cb.save_weights_only,
               !.ckpt_saves = @ + 1,
               !.events = Append(@, cb.kind)]

PyCOCOCallback_on_epoch_end(cb, st, epoch, val_loss) ==
    [st EXCEPT !.coco_data = cb.validation_data,
               !.coco_format = cb.bounding_box_format,
               !.coco_evals = @ + 1,
               !.events = Append(@, cb.kind)]

on_epoch_end(cb, st, epoch, val_loss) ==
    CASE cb.kind = "TensorBoard" -> TensorBoard_on_epoch_end(cb, st, epoch, val_loss)
      [] cb.kind = "ReduceLROnPlateau" ->
            ReduceLROnPlateau_on_epoch_end(cb, st, epoch, val_loss)
      [] cb.kind = "EarlyStopping" -> EarlyStopping_on_epoch_end(cb, st, epoch, val_loss)
      [] cb.kind = "ModelCheckpoint" ->
            ModelCheckpoint_on_epoch_end(cb, st, epoch, val_loss)
      [] cb.kind = "PyCOCOCallback" ->
            PyCOCOCallback_on_epoch_end(cb, st, epoch, val_loss)

RECURSIVE CallbackList_on_epoch_end(_, _, _, _, _)
\* CallbackList.on_epoch_end: the first n callbacks, in list order
CallbackList_on_epoch_end(cbs, n, st, epoch, val_loss) ==
    IF n = 0 THEN st
    ELSE on_epoch_end(cbs[n],
                      CallbackList_on_epoch_end(cbs, n - 1, st, epoch, val_loss),
                      epoch, val_loss)

\* one iteration of fit's epoch loop: train, validate, on_epoch_end
RunEpoch(cbs, m, st, val_loss) ==
    LET improved == st.min_seen = <<>> \/ val_loss < st.min_seen[1]
        s0 == [st EXCEPT !.events = <<>>,
                         !.backbone_trainable = m.backbone_trainable]
        s1 == CallbackList_on_epoch_end(cbs, Len(cbs), s0, st.epoch, val_loss)
        reduced == s1.lr_reductions - st.lr_reductions
    IN  [s1 EXCEPT !.epoch = @ + 1,
                   !.min_seen = IF improved THEN <<val_loss>> ELSE @,
                   !.plateau = IF improved THEN 0 ELSE @ + 1,
                   !.plateau_reductions = IF improved THEN 0 ELSE @ + reduced]

\* for epoch in range(epochs): ... if self.stop_training: break
FitLoopContinues(st) == st.epoch < fit_epochs /\ ~st.stop_training

(***************************************************************************)
(* What a pipeline yields.  A dataset is a sequence of elements.           *)
(*                                                                         *)
(* A source element follows the dataset's schema: an image (here its id    *)
(* and its height and width; pixels are not modelled) and its objects'     *)
(* boxes, relative yxyx with coordinates in quarters, and labels.          *)
(***************************************************************************)
BoxCountTable == <<0, 1, 33, 2, 32, 16, 3, 17, 31>>

BoxCount(i, seed) == BoxCountTable[((i + seed) % Len(BoxCountTable)) + 1]

SourceBox(i, j) ==
    LET y1 == j % 2
        x1 == (i + j) % 2
    IN  <<y1, x1, y1 + 1 + (j % 3), x1 + 1 + (i % 3)>>

SourceElement(i, seed) ==
    [image   |-> [id |-> i, h |-> 100 * (3 + (i % 3)), w |-> 100 * (3 + ((i + 1) % 3))],
     objects |-> [bbox  |-> [j \in 1..BoxCount(i, seed) |-> SourceBox(i, j)],
                  label |-> [j \in 1..BoxCount(i, seed) |-> (i + 3 * j) % NUM_CLASSES]]]

Source(n, seed) == [i \in 1..n |-> SourceElement(i, seed)]

\* keras_cv.bounding_box.convert_format(source="rel_yxyx", target="xywh")
ConvertRelYxyxToXywh(b, image) ==
    << (b[2] * image.w) \div 4,
       (b[1] * image.h) \div 4,
       ((b[4] - b[2]) * image.w) \div 4,
       ((b[3] - b[1]) * image.h) \div 4 >>

\* unpackage_inputs("xywh"), lines 78-95
unpackage_inputs_xywh(inputs) ==
    [images |-> inputs.image,
     bounding_boxes |->
         [j \in 1..Len(inputs.objects.bbox) |->
             ConvertRelYxyxToXywh(inputs.objects.bbox[j], inputs.image)
                 \o <<inputs.objects.label[j]>>]]

Batch(elems, first, size) ==
    [images |-> [k \in 1..size |-> elems[first + k - 1].images],
     bounding_boxes |-> [k \in 1..size |-> elems[first + k - 1].bounding_boxes]]

dense_to_ragged_batch_keep_remainder(elems, batch_size) ==
    LET n == Len(elems)
        full == n \div batch_size
        rest == n % batch_size
    IN  [b \in 1..(full + IF rest > 0 THEN 1 ELSE 0) |->
            Batch(elems, (b - 1) * batch_size + 1,
                  IF b <= full THEN batch_size ELSE rest)]

\* tf.data.experimental.dense_to_ragged_batch(batch_size, drop_remainder=True)
dense_to_ragged_batch(elems, batch_size) ==
    [b \in 1..(Len(elems) \div batch_size) |->
        Batch(elems, (b - 1) * batch_size + 1, batch_size)]

\* the orders Dataset.shuffle(buffer_size) can emit n elements in: the element
\* emitted at position p is one of those read so far, p + buffer_size - 1 at most
ShuffleOrders(n, buffer_size) ==
    {f \in [1..n -> 1..n] :
        /\ \A p, q \in 1..n : p # q => f[p] # f[q]
        /\ \A p \in 1..n : f[p] <= p + buffer_size - 1}

\* layers.RandomFlip(mode="horizontal"): x becomes width - x - w
FlipBox(b, image) == <<image.w - b[1] - b[3], b[2], b[3], b[4], b[5]>>

\* a resize of the image to IMG_SIZE on its longer side, times num/den
ScaleBox(b, image, num, den) ==
    LET longer == IF image.h > image.w THEN image.h ELSE image.w
        sc(v) == (v * IMG_SIZE * num) \div (longer * den)
    IN  <<sc(b[1]), sc(b[2]), sc(b[3]), sc(b[4]), b[5]>>

Resized(image) == [id |-> image.id, h |-> IMG_SIZE, w |-> IMG_SIZE]

\* layers.JitteredResize(scale_factor=(0.8, 1.25)): the ends of the range
ScaleFactors == {<<4, 5>>, <<5, 4>>}

\* what the augmenter drew for a batch: flip or not, a scale factor, and
\* MixUp's permutation of the batch (a rotation by `mix`; 0: MixUp not applied)
AugmentChoices(size) ==
    [flip : BOOLEAN, scale : ScaleFactors, mix : 0..(size - 1)]

\* layers.Augmenter([RandomFlip, JitteredResize, MaybeApply(MixUp)]), lines 123-133
augmenter(batch, c) ==
    LET size == Len(batch.images)
        geo(k) == [j \in 1..Len(batch.bounding_boxes[k]) |->
                     LET b == batch.bounding_boxes[k][j]
                         f == IF c.flip THEN FlipBox(b, batch.images[k]) ELSE b
                     IN  ScaleBox(f, batch.images[k], c.scale[1], c.scale[2])]
        other(k) == ((k - 1 + c.mix) % size) + 1
    IN  [images |-> [k \in 1..size |-> Resized(batch.images[k])],
         bounding_boxes |->
             [k \in 1..size |-> IF c.mix = 0 THEN geo(k) ELSE geo(k) \o geo(other(k))]]

\* layers.Resizing(IMG_SIZE, IMG_SIZE, pad_to_aspect_ratio=True), lines 119-121
eval_resizing(batch) ==
    [images |-> [k \in 1..Len(batch.images) |-> Resized(batch.images[k])],
     bounding_boxes |->
         [k \in 1..Len(batch.images) |->
             [j \in 1..Len(batch.bounding_boxes[k]) |->
                 ScaleBox(batch.bounding_boxes[k][j], batch.images[k], 1, 1)]]]

\* unpackage_inputs(data), lines 150-151
unpackage_inputs(batch) == <<batch.images, batch.bounding_boxes>>

\* RaggedTensor.to_tensor(default_value, shape=[rows, cols, attrs]): every
\* dimension is padded with default_value, or cut, to the length asked for
to_tensor(ragged, default_value, rows, cols, attrs) ==
    [r \in 1..rows |->
        [j \in 1..cols |->
            [a \in 1..attrs |->
                IF r <= Len(ragged) /\ j <= Len(ragged[r]) /\ a <= Len(ragged[r][j])
                THEN ragged[r][j][a]
                ELSE default_value]]]

pad_fn_zero_default(image, boxes, global_batch_size) ==
    LET t == to_tensor(boxes, 0, global_batch_size, PAD_BOXES, PAD_ATTRS)
    IN  <<image,
          [boxes   |-> [r \in 1..Len(t) |-> [j \in 1..Len(t[r]) |-> SubSeq(t[r][j], 1, 4)]],
           classes |-> [r \in 1..Len(t) |-> [j \in 1..Len(t[r]) |-> t[r][j][5]]]]>>

\* pad_fn, lines 160-167
pad_fn(image, boxes, global_batch_size) ==
    LET t == to_tensor(boxes, PAD_VALUE, global_batch_size, PAD_BOXES, PAD_ATTRS)
    IN  <<image,
          [boxes   |-> [r \in 1..Len(t) |-> [j \in 1..Len(t[r]) |-> SubSeq(t[r][j], 1, 4)]],
           classes |-> [r \in 1..Len(t) |-> [j \in 1..Len(t[r]) |-> t[r][j][5]]]]>>

(***************************************************************************)
(* The script, statement by statement.                                     *)
(***************************************************************************)
PipeIdle ==
    /\ p_ops = <<>> /\ p_pos = 0 /\ p_replicas = 0 /\ p_n = 0
    /\ data = <<>> /\ prev_data = <<>>

Init ==
    /\ pc = "flags"
    /\ trace = <<>>
    /\ FLAGS = DefaultFlags
    /\ strategy = "unbound"
    /\ tpu_error = ""
    /\ num_replicas = 0
    /\ GLOBAL_BATCH_SIZE = 0
    /\ train_ds = EmptyDs
    /\ eval_ds = EmptyDs
    /\ pipe_i = 1
    /\ model = NoModel
    /\ callbacks = <<>>
    /\ fit = NotStarted
    /\ PipeIdle

\* FLAGS(sys.argv), line 50
ParseFlags ==
    /\ pc = "flags"
    /\ \E wn \in WeightsNameArgs, tp \in TensorboardPathArgs :
           FLAGS' = ParseArgv(wn, tp)
    /\ trace' = Append(trace, "flags")
    /\ pc' = StageAfter("flags")
    /\ UNCHANGED <<strategy, tpu_error, num_replicas, GLOBAL_BATCH_SIZE, train_ds,
                   eval_ds, pipe_i, model, callbacks, fit>>
    /\ UNCHANGED pipeVars

\* the try/except of lines 54-59
SelectStrategy ==
    /\ pc = "strategy"
    /\ \E connect \in TryOutcomes, ctor \in TryOutcomes, r \in 1..MaxReplicas :
           LET sel == StrategySelection(connect, ctor) IN
           /\ strategy' = sel.strategy
           /\ tpu_error' = sel.raised
           /\ num_replicas' = IF sel.aborted THEN 0 ELSE r
           /\ pc' = IF sel.aborted THEN "aborted" ELSE StageAfter("strategy")
    /\ trace' = Append(trace, "strategy")
    /\ UNCHANGED <<FLAGS, GLOBAL_BATCH_SIZE, train_ds, eval_ds, pipe_i, model,
                   callbacks, fit>>
    /\ UNCHANGED pipeVars

\* GLOBAL_BATCH_SIZE = BATCH_SIZE * strategy.num_replicas_in_sync, lines 61-65
ComputeBatchSize ==
    /\ pc = "batch_size"
    /\ GLOBAL_BATCH_SIZE' = BATCH_SIZE * num_replicas
    /\ pc' = StageAfter("batch_size")
    /\ UNCHANGED <<trace, FLAGS, strategy, tpu_error, num_replicas, train_ds, eval_ds,
                   pipe_i, model, callbacks, fit>>
    /\ UNCHANGED pipeVars

\* one of the tf.data statements of lines 69-171
PipelineStatement ==
    /\ pc = "pipelines"
    /\ pipe_i <= Len(PipelineProgram)
    /\ LET st == PipelineProgram[pipe_i] IN
       /\ train_ds' = IF st.target = "train" THEN ApplyStatement(train_ds, st)
                      ELSE train_ds
       /\ eval_ds' = IF st.target = "eval" THEN ApplyStatement(eval_ds, st)
                     ELSE eval_ds
    /\ pipe_i' = pipe_i + 1
    /\ trace' = IF pipe_i = 1 THEN Append(trace, "pipelines") ELSE trace
    /\ pc' = IF pipe_i = Len(PipelineProgram) THEN StageAfter("pipelines") ELSE pc
    /\ UNCHANGED <<FLAGS, strategy, tpu_error, num_replicas, GLOBAL_BATCH_SIZE, model,
                   callbacks, fit>>
    /\ UNCHANGED pipeVars

\* with strategy.scope(): ... model = keras_cv.models.RetinaNet(...), lines 173-199
BuildModel ==
    /\ pc = "model"
    /\ model' = BuildRetinaNet(strategy)
    /\ trace' = Append(trace, "model")
    /\ pc' = StageAfter("model")
    /\ UNCHANGED <<FLAGS, strategy, tpu_error, num_replicas, GLOBAL_BATCH_SIZE,
                   train_ds, eval_ds, pipe_i, callbacks, fit>>
    /\ UNCHANGED pipeVars

\* lines 200-202
FreezeBackbone ==
    /\ pc = "freeze"
    /\ model' = Freeze(model)
    /\ pc' = StageAfter("freeze")
    /\ UNCHANGED <<trace, FLAGS, strategy, tpu_error, num_replicas, GLOBAL_BATCH_SIZE,
                   train_ds, eval_ds, pipe_i, callbacks, fit>>
    /\ UNCHANGED pipeVars

\* model.compile(...), lines 204-208
Compile ==
    /\ pc = "compile"
    /\ model' = CompileModel(model)
    /\ trace' = Append(trace, "compile")
    /\ pc' = StageAfter("compile")
    /\ UNCHANGED <<FLAGS, strategy, tpu_error, num_replicas, GLOBAL_BATCH_SIZE,
                   train_ds, eval_ds, pipe_i, callbacks, fit>>
    /\ UNCHANGED pipeVars

\* callbacks = [...], lines 210-216
MakeCallbacks ==
    /\ pc = "callbacks"
    /\ callbacks' = Callbacks(FLAGS, eval_ds)
    /\ pc' = StageAfter("callbacks")
    /\ UNCHANGED <<trace, FLAGS, strategy, tpu_error, num_replicas, GLOBAL_BATCH_SIZE,
                   train_ds, eval_ds, pipe_i, model, fit>>
    /\ UNCHANGED pipeVars

\* model.fit(...) is entered, line 218: on_train_begin
FitBegin ==
    /\ pc = "fit"
    /\ fit' = FitStart(model)
    /\ trace' = Append(trace, "fit")
    /\ pc' = "fit_epoch"
    /\ UNCHANGED <<FLAGS, strategy, tpu_error, num_replicas, GLOBAL_BATCH_SIZE,
                   train_ds, eval_ds, pipe_i, model, callbacks>>
    /\ UNCHANGED pipeVars

\* one epoch of the loop; the validation loss is whatever training produces
FitEpoch ==
    /\ pc = "fit_epoch"
    /\ FitLoopContinues(fit)
    /\ \E val_loss \in Losses : fit' = RunEpoch(callbacks, model, fit, val_loss)
    /\ UNCHANGED <<pc, trace, FLAGS, strategy, tpu_error, num_replicas,
                   GLOBAL_BATCH_SIZE, train_ds, eval_ds, pipe_i, model, callbacks>>
    /\ UNCHANGED pipeVars

\* the loop is left and fit returns
FitEnd ==
    /\ pc = "fit_epoch"
    /\ ~FitLoopContinues(fit)
    /\ pc' = StageAfter("fit")
    /\ UNCHANGED <<trace, FLAGS, strategy, tpu_error, num_replicas, GLOBAL_BATCH_SIZE,
                   train_ds, eval_ds, pipe_i, model, callbacks, fit>>
    /\ UNCHANGED pipeVars

Next ==
    \/ ParseFlags
    \/ SelectStrategy
    \/ ComputeBatchSize
    \/ PipelineStatement
    \/ BuildModel
    \/ FreezeBackbone
    \/ Compile
    \/ MakeCallbacks
    \/ FitBegin
    \/ FitEpoch
    \/ FitEnd

Spec == Init /\ [][Next]_vars

\* the interpreter runs the next statement whenever there is one
FairSpec == Spec /\ WF_vars(Next)

(***************************************************************************)
(* A pipeline iterated: the transformations the script gave it, applied in *)
(* order to a dataset of p_n elements under p_replicas replicas.           *)
(***************************************************************************)
ScriptIdle ==
    /\ pc = "flags" /\ trace = <<>> /\ FLAGS = DefaultFlags
    /\ strategy = "unbound" /\ tpu_error = "" /\ num_replicas = 0
    /\ GLOBAL_BATCH_SIZE = 0 /\ train_ds = EmptyDs /\ eval_ds = EmptyDs
    /\ pipe_i = 1 /\ model = NoModel /\ callbacks = <<>> /\ fit = NotStarted

PipeGlobalBatchSize == BATCH_SIZE * p_replicas

PipeInit ==
    /\ ScriptIdle
    /\ \E target \in {"train", "eval"} :
           p_ops = BuildUpTo(target, Len(PipelineProgram)).ops
    /\ p_pos = 0
    /\ p_replicas \in 1..MaxReplicas
    /\ p_n \in 0..MaxExamples
    /\ \E seed \in 0..MaxSeed : data = Source(p_n, seed)
    /\ prev_data = <<>>

NextOp == IF p_pos < Len(p_ops) THEN p_ops[p_pos + 1] ELSE "end"

Advance(result) ==
    /\ data' = result
    /\ prev_data' = data
    /\ p_pos' = p_pos + 1
    /\ UNCHANGED <<p_ops, p_replicas, p_n>>
    /\ UNCHANGED scriptVars

PipeUnpackageXywh ==
    /\ NextOp = "unpackage_xywh"
    /\ Advance([i \in 1..Len(data) |-> unpackage_inputs_xywh(data[i])])

PipeRaggedBatch ==
    /\ NextOp = "ragged_batch"
    /\ Advance(dense_to_ragged_batch(data, PipeGlobalBatchSize))

\* train_ds.shuffle(8 * strategy.num_replicas_in_sync), line 103
PipeShuffle ==
    /\ NextOp = "shuffle"
    /\ \E f \in ShuffleOrders(Len(data), 8 * p_replicas) :
           Advance([b \in 1..Len(data) |-> data[f[b]]])

\* prefetch changes when elements are produced, not what they are
PipePrefetch ==
    /\ NextOp = "prefetch"
    /\ Advance(data)

PipeAugment ==
    /\ NextOp = "augmenter"
    /\ \E c \in [1..Len(data) -> AugmentChoices(PipeGlobalBatchSize)] :
           Advance([b \in 1..Len(data) |-> augmenter(data[b], c[b])])

PipeEvalResizing ==
    /\ NextOp = "eval_resizing"
    /\ Advance([b \in 1..Len(data) |-> eval_resizing(data[b])])

PipeUnpackageTuple ==
    /\ NextOp = "unpackage_tuple"
    /\ Advance([b \in 1..Len(data) |-> unpackage_inputs(data[b])])

PipePad ==
    /\ NextOp = "pad_fn"
    /\ Advance([b \in 1..Len(data) |->
                   pad_fn(data[b][1], data[b][2], PipeGlobalBatchSize)])

PipeNext ==
    \/ PipeUnpackageXywh
    \/ PipeRaggedBatch
    \/ PipeShuffle
    \/ PipePrefetch
    \/ PipeAugment
    \/ PipeEvalResizing
    \/ PipeUnpackageTuple
    \/ PipePad

PipeSpec == PipeInit /\ [][PipeNext]_vars

(***************************************************************************)
(* Properties.                                                             *)
(***************************************************************************)
Ran(stage) == \E i \in 1..Len(trace) : trace[i] = stage

IsPrefix(a, b) == Len(a) <= Len(b) /\ \A i \in 1..Len(a) : a[i] = b[i]

Applied(op) == \E i \in 1..p_pos : p_ops[i] = op

\* C1: a ValueError raised by TPUClusterResolver.connect() or by TPUStrategy(tpu)
\* does not abort the script but selects MirroredStrategy; when neither raises,
\* TPUStrategy is selected; and once GLOBAL_BATCH_SIZE is computed a strategy is
\* bound and GLOBAL_BATCH_SIZE is BATCH_SIZE times its replica count.
C1_StrategyFallback ==
    /\ tpu_error = "ValueError" => strategy = "MirroredStrategy" /\ pc # "aborted"
    /\ tpu_error = "ok" => strategy = "TPUStrategy" /\ pc # "aborted"
    /\ pc \notin {"flags", "strategy", "aborted"} =>
           /\ strategy \in {"TPUStrategy", "MirroredStrategy"}
           /\ num_replicas >= 1
    /\ pc \notin {"flags", "strategy", "batch_size", "aborted"} =>
           GLOBAL_BATCH_SIZE = 4 * num_replicas

C1_Witness ==
    /\ tpu_error = "ValueError"
    /\ strategy = "MirroredStrategy"
    /\ pc = "pipelines"
    /\ num_replicas = 2
    /\ GLOBAL_BATCH_SIZE = 8

TrainOps ==
    <<"unpackage_xywh", "ragged_batch", "shuffle", "prefetch", "augmenter",
      "unpackage_tuple", "pad_fn">>

EvalOps ==
    <<"unpackage_xywh", "ragged_batch", "prefetch", "eval_resizing",
      "unpackage_tuple", "pad_fn">>

\* C2: the stages run in the order flags, strategy, pipelines, model, compile,
\* fit, each at most once and, in a completed run, exactly once; the model is
\* built in the scope of the selected strategy; and when fit starts both
\* pipelines end in pad_fn (after map, batch, augment/resize, unpackage) and the
\* model is compiled.
C2_StagesInSequence ==
    /\ IsPrefix(trace, Stages)
    /\ pc = "done" => trace = Stages
    /\ model.built => model.in_scope_of = strategy /\ Ran("pipelines")
    /\ Ran("model") => pipe_i = Len(PipelineProgram) + 1
    /\ Ran("fit") =>
           /\ model.compiled
           /\ model.built
           /\ train_ds.ops = TrainOps
           /\ eval_ds.ops = EvalOps

C2_Witness == pc = "done" /\ trace = Stages /\ fit.epoch > 0

\* C4: the TensorBoard callback logs to the value of --tensorboard_path and the
\* ModelCheckpoint callback stores to the value of --weights_name.
C4_FlagsControlOutputs ==
    callbacks # <<>> =>
        /\ callbacks[1].log_dir = FLAGS.tensorboard_path
        /\ callbacks[4].filepath = FLAGS.weights_name

C6_BackboneFrozen ==
    /\ pc \in {"compile", "callbacks", "fit", "fit_epoch", "done"} =>
           ~model.backbone_trainable
    /\ model.compiled => ~model.backbone_trainable
    /\ Ran("fit") => ~fit.backbone_trainable

C6_Witness ==
    /\ pc = "fit_epoch"
    /\ fit.epoch = fit_epochs
    /\ ~fit.stop_training
    /\ ~fit.backbone_trainable

C7_Bounded ==
    /\ fit.epoch <= 35
    /\ pc = "done" => fit.epoch = 35 \/ fit.stop_training
    /\ fit.plateau <= 10
    /\ fit.stop_training <=> fit.plateau = 10
    /\ fit.stop_training => fit.plateau_reductions >= 1 /\ fit.lr_reductions >= 1

\* C7: fit terminates: it runs at most 35 epochs, it stops exactly when the
\* validation loss has not improved for 10 consecutive epochs, and by then
\* ReduceLROnPlateau has reduced the learning rate during those epochs.
C7_FitTerminates == []C7_Bounded /\ (pc = "fit_epoch" ~> pc = "done")

C7_Witness ==
    /\ pc = "done"
    /\ fit.stop_training
    /\ fit.epoch < 35
    /\ fit.plateau = 10
    /\ fit.plateau_reductions >= 1

\* C3: after pad_fn, every image that had k <= 32 boxes has 32 box slots and 32
\* class slots; the first k hold its boxes' four coordinates and classes in
\* their order, the others hold -1.
C3_PadToFixedBoxCount ==
    (p_pos > 0 /\ p_ops[p_pos] = "pad_fn") =>
        \A b \in 1..Len(data) :
            \A r \in 1..Len(prev_data[b][2]) :
                LET before == prev_data[b][2][r]
                    k == Len(before)
                    boxes == data[b][2].boxes[r]
                    classes == data[b][2].classes[r]
                IN  k <= 32 =>
                        /\ Len(boxes) = 32
                        /\ Len(classes) = 32
                        /\ \A j \in 1..k :
                               /\ boxes[j] = SubSeq(before[j], 1, 4)
                               /\ classes[j] = before[j][5]
                        /\ \A j \in (k + 1)..32 :
                               /\ boxes[j] = <<-1, -1, -1, -1>>
                               /\ classes[j] = -1

C3_Witness ==
    /\ p_pos > 0
    /\ p_ops[p_pos] = "pad_fn"
    /\ \E b \in 1..Len(data) :
           \E r \in 1..Len(prev_data[b][2]) :
               /\ Len(prev_data[b][2][r]) \in 1..31
               /\ data[b][2].classes[r][32] = -1

BatchSizeOf(batch) ==
    IF Applied("unpackage_tuple") THEN Len(batch[1]) ELSE Len(batch.images)

\* C8: once batched, a dataset of p_n examples is p_n div G batches of exactly
\* G = 4 * replicas examples each, the trailing p_n mod G examples dropped; so
\* the leading dimension pad_fn asks for is the batch's own size.
C8_BatchesAreGlobalBatchSize ==
    Applied("ragged_batch") =>
        LET G == 4 * p_replicas IN
        /\ Len(data) = p_n \div G
        /\ \A b \in 1..Len(data) : BatchSizeOf(data[b]) = G
        /\ p_ops[p_pos] = "ragged_batch" =>
               \A b \in 1..Len(data) : \A k \in 1..G :
                   data[b].images[k] = prev_data[(b - 1) * G + k].images
        /\ p_ops[p_pos] = "pad_fn" =>
               \A b \in 1..Len(data) :
                   /\ Len(data[b][2].boxes) = Len(prev_data[b][2])
                   /\ Len(data[b][2].classes) = Len(prev_data[b][2])
                   /\ Len(data[b][2].boxes) = G

C8_Witness ==
    /\ p_pos = Len(p_ops)
    /\ p_ops[p_pos] = "pad_fn"
    /\ Len(data) = 2
    /\ p_n % (4 * p_replicas) # 0

====
